---------------------------- MODULE Spec2Model ----------------------------
(***************************************************************************)
(* Model of mmdet3d/core/bbox/coders/km3d_decoder.py: heatmap peak         *)
(* suppression (_nms), top-K selection (_topk, _topk_channel), indexed     *)
(* gathering (_gather_feat, _permute_and_gather_feat) and the decoding     *)
(* entry point object_pose_decode.                                         *)
(*                                                                         *)
(* One batch item is modelled: every operation of the file treats the      *)
(* batch axis pointwise.  A [Ch,H,W] array is a function f[c][y][x] with    *)
(* 0-based indices, as in the source.  Real numbers are exact integers in  *)
(* fixed units: image coordinates in half pixels (0.5 is one unit), scores *)
(* in twentieths (0.1 is two units, 1.0 is twenty).                        *)
(***************************************************************************)
EXTENDS Integers, Sequences, FiniteSets, TLC

\* ------------------------------------------------------------ bounds
\* Height and width of the output grid, number of class channels, largest K.
H == 2
W == 3
C == 2
MaxK == 2

HW == H * W
Pixels == 0 .. (HW - 1)

\* ------------------------------------------------------------ helpers
SetMax(S) == CHOOSE m \in S : \A n \in S : n <= m

MaxOf(a, b) == IF a >= b THEN a ELSE b

Channels(f) == DOMAIN f

\* The function f itself, as an explicit table of its values: the values of a
\* table are computed once, when it is built, and not at every application.
Tabulate(f) == f @@ <<>>

Tabulate2(f) == Tabulate([a \in DOMAIN f |-> Tabulate(f[a])])

Tabulate3(f) == Tabulate([a \in DOMAIN f |-> Tabulate2(f[a])])

\* An optional argument: <<>> is None, <<v>> is the value v.
None == <<>>
Some(v) == <<v>>
IsNone(o) == Len(o) = 0
Val(o) == o[1]

\* scores.view(batch, cat, -1): row-major flattening of the two spatial axes.
ViewFlat(f) == Tabulate2([c \in Channels(f) |-> [p \in Pixels |-> f[c][p \div W][p % W]]])

\* ------------------------------------------------------------ _nms
kernel == 3

\* Variant: out-of-bounds cells of the window count as 0 (zero padding).
MaxPool2dZeroPad(heat, k, pad) ==
    Tabulate3([c \in Channels(heat) |-> [y \in 0 .. (H - 1) |-> [x \in 0 .. (W - 1) |->
        SetMax({IF yy >= 0 /\ yy < H /\ xx >= 0 /\ xx < W THEN heat[c][yy][xx] ELSE 0 :
                  yy \in (y - pad) .. (y - pad + k - 1),
                  xx \in (x - pad) .. (x - pad + k - 1)})]]])

\* F.max_pool2d(heat, (k, k), stride=1, padding=pad): the padding is implicit
\* minus infinity, so the maximum runs over the in-bounds cells of the window.
MaxPool2d(heat, k, pad) ==
    Tabulate3([c \in Channels(heat) |-> [y \in 0 .. (H - 1) |-> [x \in 0 .. (W - 1) |->
        SetMax({heat[c][yy][xx] :
                  yy \in {v \in (y - pad) .. (y - pad + k - 1) : v >= 0 /\ v < H},
                  xx \in {v \in (x - pad) .. (x - pad + k - 1) : v >= 0 /\ v < W}})]]])

\* Variant: the pooled maximum is returned instead of heat * keep.
NmsKeepMax(heat, k) ==
    MaxPool2d(heat, k, (k - 1) \div 2)

\* keep = (hmax == heat).float()
NmsKeep(hmax, heat) ==
    Tabulate3([c \in Channels(heat) |-> [y \in 0 .. (H - 1) |-> [x \in 0 .. (W - 1) |->
        IF hmax[c][y][x] = heat[c][y][x] THEN 1 ELSE 0]]])

\* heat * keep
NmsProduct(heat, keep) ==
    Tabulate3([c \in Channels(heat) |-> [y \in 0 .. (H - 1) |-> [x \in 0 .. (W - 1) |->
        heat[c][y][x] * keep[c][y][x]]]])

Nms(heat, k) ==
    NmsProduct(heat, NmsKeep(MaxPool2d(heat, k, (k - 1) \div 2), heat))

\* ------------------------------------------------------------ torch.topk
\* s is a result of torch.topk(row, K): K distinct positions, values in
\* non-increasing order, nothing left out that exceeds a selected value.  The
\* order among equal values is not specified by torch.topk.
IsTopk(row, K, s) ==
    /\ \A i, j \in 0 .. (K - 1) : i < j => s[i] # s[j] /\ row[s[i]] >= row[s[j]]
    /\ \A q \in DOMAIN row : (\A i \in 0 .. (K - 1) : s[i] # q) => row[q] <= row[s[K - 1]]

TopkOutcomes(row, K) == {s \in [0 .. (K - 1) -> DOMAIN row] : IsTopk(row, K, s)}

\* torch.topk on every row of a [Ch, N] array, rows independent.
RECURSIVE TopkRowsUpTo(_, _, _)
TopkRowsUpTo(rows, K, n) ==
    IF n = 0 THEN {<<>>}
    ELSE {Append(t, s) : t \in TopkRowsUpTo(rows, K, n - 1),
                         s \in TopkOutcomes(rows[n - 1], K)}

TopkRows(rows, K) ==
    {[c \in DOMAIN rows |-> t[c + 1]] : t \in TopkRowsUpTo(rows, K, Cardinality(DOMAIN rows))}

\* The result torch.topk gives when equal values are taken in ascending
\* (tie = "low") or descending (tie = "high") position order.
RECURSIVE TopkTieFrom(_, _, _, _)
TopkTieFrom(row, K, tie, taken) ==
    IF Len(taken) = K THEN taken
    ELSE LET left == {q \in DOMAIN row : \A i \in 1 .. Len(taken) : taken[i] # q}
             best == SetMax({row[q] : q \in left})
             cand == {q \in left : row[q] = best}
             pick == IF tie = "low" THEN CHOOSE q \in cand : \A r \in cand : q <= r
                     ELSE CHOOSE q \in cand : \A r \in cand : q >= r
         IN  TopkTieFrom(row, K, tie, Append(taken, pick))

\* A sequence as a 0-based array.
ZeroBased(t) == Tabulate([i \in 0 .. (Len(t) - 1) |-> t[i + 1]])

TopkTie(row, K, tie) == ZeroBased(TopkTieFrom(row, K, tie, <<>>))

TopkTieRows(rows, K, tie) == Tabulate([c \in DOMAIN rows |-> TopkTie(rows[c], K, tie)])

\* ------------------------------------------------------------ _gather_feat
\* feat.gather(1, ind) with ind expanded over the last axis: row ind[k] of feat
\* for every k.  torch.gather raises when an index is outside the gathered axis.
GatherInRange(feat, ind) == \A k \in DOMAIN ind : ind[k] \in DOMAIN feat

\* _gather_feat with mask=None, the only way this file calls it.
GatherFeat(feat, ind) ==
    Tabulate2([k \in DOMAIN ind |-> [d \in DOMAIN feat[ind[k]] |-> feat[ind[k]][d]]])

\* Variant: the spatial axes are flattened column-major.
PermuteViewTransposed(feat) ==
    Tabulate2([p \in Pixels |-> [c \in Channels(feat) |-> feat[c][p % H][p \div H]]])

\* feat.permute(0, 2, 3, 1).view(batch, -1, channels): [H*W, Ch], row p is the
\* pixel (p div W, p mod W).
PermuteView(feat) ==
    Tabulate2([p \in Pixels |-> [c \in Channels(feat) |-> feat[c][p \div W][p % W]]])

PermuteAndGatherInRange(feat, ind) == GatherInRange(PermuteView(feat), ind)

PermuteAndGatherFeat(feat, ind) == GatherFeat(PermuteView(feat), ind)

\* ------------------------------------------------------------ _topk_channel
\* The values torch.topk returns with the indices sel, row by row.
TopkValues(rows, k, sel) ==
    Tabulate2([c \in DOMAIN rows |-> [i \in 0 .. (k - 1) |-> rows[c][sel[c][i]]]])

\* topk_inds % (height * width)
ModHW(inds) ==
    Tabulate2([c \in DOMAIN inds |-> [i \in DOMAIN inds[c] |-> inds[c][i] % (H * W)]])

\* (topk_inds / width).int().float()
RowOfInd(inds) ==
    Tabulate2([c \in DOMAIN inds |-> [i \in DOMAIN inds[c] |-> inds[c][i] \div W]])

\* (topk_inds % width).int().float()
ColOfInd(inds) ==
    Tabulate2([c \in DOMAIN inds |-> [i \in DOMAIN inds[c] |-> inds[c][i] % W]])

\* The four arrays _topk_channel returns.
TopkChannelReturn(topk_scores, topk_inds) ==
    [topk_scores |-> topk_scores, topk_inds |-> topk_inds,
     topk_ys |-> RowOfInd(topk_inds), topk_xs |-> ColOfInd(topk_inds)]

\* sel[c] is the index result of torch.topk on channel c (one of TopkRows).
TopkChannel(scores, k, sel) ==
    TopkChannelReturn(TopkValues(ViewFlat(scores), k, sel), ModHW(sel))

\* ------------------------------------------------------------ _topk
\* x.view(batch, -1) of a [Ch, K] array: entry r is x[r div K][r mod K].
ViewRanks(x, k) ==
    Tabulate([r \in 0 .. (Cardinality(DOMAIN x) * k - 1) |-> x[r \div k][r % k]])

\* x.view(batch, -1, 1): the same entries, each a row of width one.
ViewRanks1(x, k) ==
    Tabulate2([r \in 0 .. (Cardinality(DOMAIN x) * k - 1) |-> [d \in {0} |-> x[r \div k][r % k]]])

\* Variant: only the first class's K entries are ranked.
TopkStage2FirstClass(scores, k, sel1) ==
    Tabulate([r \in 0 .. (k - 1) |-> TopkChannel(scores, k, sel1).topk_scores[0][r]])

\* The entries the second torch.topk of _topk ranks: topk_scores.view(batch, -1).
TopkStage2Row(scores, k, sel1) == ViewRanks(TopkChannel(scores, k, sel1).topk_scores, k)

\* Variant: the class is taken as the rank modulo K.
TopkClsesModK(topk_ind, k) == [n \in DOMAIN topk_ind |-> topk_ind[n] % k]

\* topk_clses = (topk_ind / K).int()
TopkClses(topk_ind, k) == [n \in DOMAIN topk_ind |-> topk_ind[n] \div k]

\* The values the second torch.topk returns with the indices topk_ind.
TopkValuesRow(flat, topk_ind) == Tabulate([n \in DOMAIN topk_ind |-> flat[topk_ind[n]]])

\* g.view(batch, K) of a [K, 1] array.
ViewColumn(g) == Tabulate([n \in DOMAIN g |-> g[n][0]])

\* _gather_feat(x.view(batch, -1, 1), topk_ind).view(batch, K)
GatherRanks(x, k, topk_ind) == ViewColumn(GatherFeat(ViewRanks1(x, k), topk_ind))

\* The five arrays _topk returns: first is the per-class stage, flat the row
\* the second torch.topk ranks, topk_ind its index result.
TopkReturn(first, flat, k, topk_ind) ==
    [topk_score |-> TopkValuesRow(flat, topk_ind),
     topk_inds  |-> GatherRanks(first.topk_inds, k, topk_ind),
     topk_clses |-> TopkClses(topk_ind, k),
     topk_ys    |-> GatherRanks(first.topk_ys, k, topk_ind),
     topk_xs    |-> GatherRanks(first.topk_xs, k, topk_ind)]

\* sel1 is the first torch.topk's index result (per class), sel2 the second's.
Topk(scores, k, sel1, sel2) ==
    TopkReturn(TopkChannel(scores, k, sel1), TopkStage2Row(scores, k, sel1), k, sel2)

\* ------------------------------------------------------------ state
\* pc:   position of the call
\* heat: the heatmap argument of _nms, _topk and object_pose_decode
\* feat, ind: the arguments of _permute_and_gather_feat
\* K:    the top-K count
\* ret:  the value returned by the function called
\* err:  the exception that ended the call ("" when none)
\* args: the arguments object_pose_decode was called with
\* loc:  the local names of object_pose_decode and the values bound to them
VARIABLES pc, heat, feat, ind, K, ret, err, args, loc

vars == <<pc, heat, feat, ind, K, ret, err, args, loc>>

\* A [Ch,H,W] array equal to bg except at the cells s1 and s2.
Cells(Ch) == (0 .. (Ch - 1)) \X (0 .. (H - 1)) \X (0 .. (W - 1))

\* The cells of the last channel, and those of its first row.
LastChannelCells(Ch) == {Ch - 1} \X (0 .. (H - 1)) \X (0 .. (W - 1))
LastChannelRow(Ch) == {Ch - 1} \X {0} \X (0 .. (W - 1))

Patch(Ch, bg, s1, v1, s2, v2) ==
    Tabulate3([c \in 0 .. (Ch - 1) |-> [y \in 0 .. (H - 1) |-> [x \in 0 .. (W - 1) |->
        IF <<c, y, x>> = s2 THEN v2
        ELSE IF <<c, y, x>> = s1 THEN v1
        ELSE bg[c][y][x]]]])

Const(Ch, v) == [c \in 0 .. (Ch - 1) |-> [y \in 0 .. (H - 1) |-> [x \in 0 .. (W - 1) |-> v]]]

Ramp(Ch, step) ==
    [c \in 0 .. (Ch - 1) |-> [y \in 0 .. (H - 1) |-> [x \in 0 .. (W - 1) |->
        IF step > 0 THEN (y * W + x) \div step ELSE HW - 1 - (y * W + x)]]]

\* ------------------------------------------------------------ _nms alone
HeatVals == {-1, 0, 1, 2}

NmsInputs ==
    {Patch(C, bg, s1, v1, s2, v2) :
        bg \in {Const(C, -1), Const(C, 0), Ramp(C, 1)},
        s1 \in Cells(C), v1 \in HeatVals, s2 \in Cells(C), v2 \in HeatVals}

InitNms ==
    /\ pc = "start"
    /\ heat \in NmsInputs
    /\ feat = None /\ ind = None /\ K = 0 /\ ret = None /\ err = ""
    /\ args = None /\ loc = None

NmsCall ==
    /\ pc = "start"
    /\ ret' = Nms(heat, kernel)
    /\ pc' = "done"
    /\ UNCHANGED <<heat, feat, ind, K, err, args, loc>>

NextNms == NmsCall

SpecNms == InitNms /\ [][NextNms]_vars

\* ------------------------------------------------------------ _topk alone
TopVals == {0, HW \div 2, HW + 1}

TopkInputs ==
    {Patch(C, bg, s1, v1, s2, v2) :
        bg \in {Ramp(C, 1), Ramp(C, 0), Ramp(C, 2)},
        s1 \in Cells(C), v1 \in TopVals, s2 \in LastChannelRow(C), v2 \in TopVals}

InitTopk ==
    /\ pc = "start"
    /\ heat \in TopkInputs
    /\ K \in 1 .. MaxK
    /\ feat = None /\ ind = None /\ ret = None /\ err = ""
    /\ args = None /\ loc = None

TopkCall ==
    /\ pc = "start"
    /\ \E sel1 \in TopkRows(ViewFlat(heat), K) :
         \E sel2 \in TopkOutcomes(TopkStage2Row(heat, K, sel1), K) :
            ret' = Topk(heat, K, sel1, sel2)
    /\ pc' = "done"
    /\ UNCHANGED <<heat, feat, ind, K, err, args, loc>>

NextTopk == TopkCall

SpecTopk == InitTopk /\ [][NextTopk]_vars

\* ------------------------------------------------------------ gather alone
GatherFeats == {Ramp(C, 1), Ramp(C, 0),
                [c \in 0 .. (C - 1) |-> [y \in 0 .. (H - 1) |-> [x \in 0 .. (W - 1) |->
                    c * HW + y * W + x]]]}

InitGather ==
    /\ pc = "start"
    /\ feat \in GatherFeats
    /\ K \in 1 .. MaxK
    /\ ind \in [0 .. (K - 1) -> -1 .. HW]
    /\ heat = None /\ ret = None /\ err = ""
    /\ args = None /\ loc = None

GatherCall ==
    /\ pc = "start"
    /\ PermuteAndGatherInRange(feat, ind)
    /\ ret' = PermuteAndGatherFeat(feat, ind)
    /\ pc' = "done"
    /\ UNCHANGED <<heat, feat, ind, K, err, args, loc>>

GatherFail ==
    /\ pc = "start"
    /\ ~PermuteAndGatherInRange(feat, ind)
    /\ err' = "RuntimeError"
    /\ pc' = "error"
    /\ UNCHANGED <<heat, feat, ind, K, ret, args, loc>>

NextGather == GatherCall \/ GatherFail

SpecGather == InitGather /\ [][NextGather]_vars

\* ------------------------------------------------------------ object_pose_decode
\* Units: n pixels, and the score n, in the integer units of this module.
Px(n) == 2 * n
Score(n) == 20 * n

\* The constant 0.5 of the missing-offset branches, in half pixels.
Half == 1

\* thresh = 0.1, in twentieths.
thresh == 2

\* name = value in the frame of local names.
Bind(frame, name, value) == (name :> value) @@ frame

\* Variant: the column is added to the y channels and the row to the x channels.
KpsAddAnchorSwapped(g, xs, ys) ==
    Tabulate2([k \in DOMAIN g |-> [c \in DOMAIN g[k] |->
        g[k][c] + (IF c % 2 = 0 THEN Px(ys[k]) ELSE Px(xs[k]))]])

\* kps[..., ::2] += xs ; kps[..., 1::2] += ys   (xs, ys: the integer anchors)
KpsAddAnchor(g, xs, ys) ==
    Tabulate2([k \in DOMAIN g |-> [c \in DOMAIN g[k] |->
        g[k][c] + (IF c % 2 = 0 THEN Px(xs[k]) ELSE Px(ys[k]))]])

\* xs.view(batch, K, 1) + reg[:, :, d:d+1], or + 0.5 when reg is None.
AddOffset(anchor, reg, d) == Tabulate([k \in DOMAIN anchor |-> Px(anchor[k]) + reg[k][d]])

AddHalf(anchor) == Tabulate([k \in DOMAIN anchor |-> Px(anchor[k]) + Half])

CenterCoord(anchor, regOpt, inds, d) ==
    IF IsNone(regOpt) THEN AddHalf(anchor)
    ELSE AddOffset(anchor, PermuteAndGatherFeat(Val(regOpt), inds), d)

\* bboxes = cat([xs - w/2, ys - h/2, xs + w/2, ys + h/2]); w and h are whole
\* pixels in every input drawn here, so the halves are exact.
BBoxes(xs, ys, wh) ==
    Tabulate2([k \in DOMAIN xs |->
        [e \in 0 .. 3 |->
            CASE e = 0 -> xs[k] - wh[k][0] \div 2
              [] e = 1 -> ys[k] - wh[k][1] \div 2
              [] e = 2 -> xs[k] + wh[k][0] \div 2
              [] e = 3 -> ys[k] + wh[k][1] \div 2]])

\* kps.view(batch, K, J, 2).permute(0, 2, 1, 3): [J][K][2]
KpsPermute(kps, nj) ==
    Tabulate3([j \in 0 .. (nj - 1) |-> [k \in DOMAIN kps |-> [d \in 0 .. 1 |->
        kps[k][2 * j + d]]]])

\* hm_inds.view(batch, -1): entry r is hm_inds[r div K][r mod K].
\* The gathered offsets, viewed as [J][K][2].
ViewJoints(g, k, nj) ==
    Tabulate2([j \in 0 .. (nj - 1) |-> [m \in 0 .. (k - 1) |-> g[j * k + m]]])

HmOffsets(kps_offsets, hm_inds, k, nj) ==
    ViewJoints(PermuteAndGatherFeat(kps_offsets, ViewRanks(hm_inds, k)), k, nj)

\* hm_xs + kps_offsets[:, :, :, d], or hm_xs + 0.5 when kps_offsets is None.
\* coord is the integer column (d = 0) or row (d = 1) of every candidate.
HmCoord(coord, kps_offsets, offs, d) ==
    Tabulate2([j \in DOMAIN coord |-> [m \in DOMAIN coord[j] |->
        Px(coord[j][m]) + (IF IsNone(kps_offsets) THEN Half ELSE offs[j][m][d])]])

\* Variant: a score equal to the threshold passes.
ThresholdMaskInclusive(hm_score) ==
    Tabulate2([j \in DOMAIN hm_score |-> [m \in DOMAIN hm_score[j] |->
        IF hm_score[j][m] >= thresh THEN 1 ELSE 0]])

\* mask = (hm_score > thresh).float()
ThresholdMask(hm_score) ==
    Tabulate2([j \in DOMAIN hm_score |-> [m \in DOMAIN hm_score[j] |->
        IF hm_score[j][m] > thresh THEN 1 ELSE 0]])

\* (1 - mask) * sentinel + mask * x
MaskSelect(mask, sentinel, x) ==
    Tabulate2([j \in DOMAIN x |-> [m \in DOMAIN x[j] |->
        (1 - mask[j][m]) * sentinel + mask[j][m] * x[j][m]]])

\* ((reg_kps - hm_kps) ** 2).sum(dim=4): the squared distance between the
\* regression keypoint of object k and the heatmap candidate m of channel j.
\* The square root, being increasing, is not taken: dist holds the squares.
DistSq(kps, hm_xs, hm_ys) ==
    Tabulate3([j \in DOMAIN kps |-> [k \in DOMAIN kps[j] |-> [m \in DOMAIN hm_xs[j] |->
        (kps[j][k][0] - hm_xs[j][m]) * (kps[j][k][0] - hm_xs[j][m])
      + (kps[j][k][1] - hm_ys[j][m]) * (kps[j][k][1] - hm_ys[j][m])]]])

\* dist.min(dim=3): the indices of the first minimal value.
ArgMin(row) ==
    CHOOSE m \in DOMAIN row :
        /\ \A q \in DOMAIN row : row[m] <= row[q]
        /\ \A q \in DOMAIN row : row[q] = row[m] => m <= q

MinInd(dist) == Tabulate2([j \in DOMAIN dist |-> [k \in DOMAIN dist[j] |-> ArgMin(dist[j][k])]])

\* dist.min(dim=3): the minimal values.
MinDist(dist, min_ind) ==
    Tabulate2([j \in DOMAIN dist |-> [k \in DOMAIN dist[j] |-> dist[j][k][min_ind[j][k]]]])

\* x.gather(2, min_ind): the entry of the chosen candidate, per (joint, object).
GatherMin(x, min_ind) ==
    Tabulate2([j \in DOMAIN min_ind |-> [k \in DOMAIN min_ind[j] |-> x[j][min_ind[j][k]]]])

\* hm_kps = cat([hm_xs, hm_ys], dim=3), after the two gathers.
HmKps(hm_xs, hm_ys, min_ind) ==
    Tabulate3([j \in DOMAIN min_ind |-> [k \in DOMAIN min_ind[j] |-> [d \in 0 .. 1 |->
        IF d = 0 THEN hm_xs[j][min_ind[j][k]] ELSE hm_ys[j][min_ind[j][k]]]]])

\* min_dist > max(bottom - top, right - left) * 0.3, on the squared distance.
DistExceeds(dsq, extent) == extent < 0 \/ 100 * dsq > 9 * extent * extent

\* Lines 399-402: the sum of the six rejection tests, as a Boolean.
RejectMask(hm_kps, hm_score, min_dist, bboxes) ==
    Tabulate2([j \in DOMAIN hm_kps |-> [k \in DOMAIN hm_kps[j] |->
        LET left   == bboxes[k][0]
            top    == bboxes[k][1]
            right  == bboxes[k][2]
            bottom == bboxes[k][3]
        IN  \/ hm_kps[j][k][0] < left
            \/ hm_kps[j][k][0] > right
            \/ hm_kps[j][k][1] < top
            \/ hm_kps[j][k][1] > bottom
            \/ hm_score[j][k] < thresh
            \/ DistExceeds(min_dist[j][k], MaxOf(bottom - top, right - left))]])

\* ---- the inputs drawn
KpsChannels == {16, 18}

\* The value at (c, y, x) of the input field of the given kind.
\*   kps:  all zero; or x offsets -1, 0, 1 by joint and y offsets by column
\*   reg:  sub-pixel offsets 0 or 0.5
\*   wh:   2 x 2 boxes; or 4 wide and 2 high
\*   dim, rot, prob: the position itself, so that a gather is recognisable
\*   kps_heatmap: a full-score peak per channel; 0.05 everywhere; 0.1 and 0.15
\*         at the two ends of the first row; a 0.05 peak per channel
\*   kps_offsets: 0 in x, 0 or 0.5 in y by row
FieldValue(kind, c, y, x) ==
    CASE kind = "KpsZero"      -> 0
      [] kind = "KpsSpread"    -> IF c % 2 = 0 THEN ((c \div 2) % 3) - 1 ELSE x % 2
      [] kind = "RegVaried"    -> IF c = 0 THEN (x + y) % 2 ELSE x % 2
      [] kind = "WhSquare"     -> Px(2)
      [] kind = "WhWide"       -> IF c = 0 THEN Px(4) ELSE Px(2)
      [] kind = "PosCoded"     -> c * HW + y * W + x
      [] kind = "HmPeak"       -> IF y * W + x = c % HW THEN Score(1) ELSE 0
      [] kind = "HmLow"        -> thresh \div 2
      [] kind = "HmEdge"       -> IF y = 0 /\ x = 0 THEN thresh
                                  ELSE IF y = 0 /\ x = W - 1 THEN thresh + 1 ELSE 0
      [] kind = "HmLowPeak"    -> IF y * W + x = c % HW THEN thresh \div 2 ELSE 0
      [] kind = "KpsOffVaried" -> IF c = 0 THEN 0 ELSE y % 2

Field(Ch, kind) ==
    Tabulate3([c \in 0 .. (Ch - 1) |-> [y \in 0 .. (H - 1) |-> [x \in 0 .. (W - 1) |->
        FieldValue(kind, c, y, x)]]])

KpsFields(nch) == {Field(nch, "KpsZero"), Field(nch, "KpsSpread")}
RegFields == {Field(2, "RegVaried")}
WhFields == {Field(2, "WhSquare"), Field(2, "WhWide")}
DimField == Field(3, "PosCoded")
RotField == Field(8, "PosCoded")
ProbField == Field(1, "PosCoded")
HmFields(nj) == {Field(nj, "HmPeak"), Field(nj, "HmLow"), Field(nj, "HmEdge"), Field(nj, "HmLowPeak")}
KpsOffFields == {Field(2, "KpsOffVaried")}

\* One object peak of score 0.9 on a zero heatmap, in the last class.
DecodeHeats == {Patch(C, Const(C, 0), s, 18, s, 18) : s \in LastChannelCells(C)}

OptionalOf(S) == {None} \cup {Some(v) : v \in S}

HeatmapArgs(nj) ==
    {<<None, None>>} \cup
    {<<Some(hm), off>> : hm \in HmFields(nj), off \in OptionalOf(KpsOffFields)}

DecodeArgs ==
    UNION {
      {[heat |-> h, wh |-> w, kps |-> kp, dim |-> DimField, rot |-> RotField,
        prob |-> pr, reg |-> r, kps_heatmap |-> hmo[1], kps_offsets |-> hmo[2]] :
          h \in DecodeHeats, w \in WhFields, kp \in KpsFields(nch),
          r \in OptionalOf(RegFields), hmo \in HeatmapArgs(nch \div 2),
          pr \in {Some(ProbField)}} : nch \in KpsChannels}
    \cup
      {[heat |-> h, wh |-> Field(2, "WhSquare"), kps |-> Field(16, "KpsZero"),
        dim |-> DimField, rot |-> RotField, prob |-> None, reg |-> None,
        kps_heatmap |-> None, kps_offsets |-> None] : h \in DecodeHeats}

Init ==
    /\ pc = "start"
    /\ args \in DecodeArgs
    /\ K \in 1 .. MaxK
    /\ loc = args
    /\ heat = None /\ feat = None /\ ind = None /\ ret = None /\ err = ""

Raise(e) ==
    /\ pc' = "error"
    /\ err' = e
    /\ UNCHANGED <<heat, feat, ind, K, ret, args, loc>>

Step(next, frame) ==
    /\ pc' = next
    /\ loc' = frame
    /\ UNCHANGED <<heat, feat, ind, K, ret, err, args>>

\* Lines 324-328: sizes, _nms and _topk of the object heatmap.
DecodePeaks ==
    /\ pc = "start"
    /\ \E tie \in {"low", "high"} :
        LET nms  == Nms(loc.heat, kernel)
            sel1 == TopkTieRows(ViewFlat(nms), K, tie)
            sel2 == TopkTie(TopkStage2Row(nms, K, sel1), K, tie)
            t    == Topk(nms, K, sel1, sel2)
        IN  Step("kps",
                 Bind(Bind(Bind(Bind(Bind(Bind(Bind(loc,
                   "num_joints", Cardinality(DOMAIN loc.kps) \div 2),
                   "heat", nms),
                   "scores", t.topk_score),
                   "inds", t.topk_inds),
                   "clses", t.topk_clses),
                   "ys", t.topk_ys),
                   "xs", t.topk_xs))

\* Lines 330-333: the keypoint regression gathered at the K peaks, anchored.
DecodeKps ==
    /\ pc = "kps"
    /\ Step("center",
            Bind(loc, "kps",
                 KpsAddAnchor(PermuteAndGatherFeat(loc.kps, loc.inds), loc.xs, loc.ys)))

\* Lines 334-341: the box centre, with the regressed or the default offset.
DecodeCenter ==
    /\ pc = "center"
    /\ Step("box",
            Bind(Bind(Bind(loc,
              "xs", CenterCoord(loc.xs, loc.reg, loc.inds, 0)),
              "ys", CenterCoord(loc.ys, loc.reg, loc.inds, 1)),
              "reg", IF IsNone(loc.reg) THEN None
                     ELSE PermuteAndGatherFeat(Val(loc.reg), loc.inds)))

\* Lines 342-356: width/height, box, dimensions and rotation code.
DecodeBox ==
    /\ pc = "box"
    /\ LET wh == PermuteAndGatherFeat(loc.wh, loc.inds)
       IN  Step("prob",
                Bind(Bind(Bind(Bind(loc,
                  "wh", wh),
                  "bboxes", BBoxes(loc.xs, loc.ys, wh)),
                  "dim", PermuteAndGatherFeat(loc.dim, loc.inds)),
                  "rot", PermuteAndGatherFeat(loc.rot, loc.inds)))

\* Lines 357-359: the probability; then the branch on kps_heatmap.
DecodeProb ==
    /\ pc = "prob"
    /\ ~IsNone(loc.prob)
    /\ Step(IF IsNone(loc.kps_heatmap) THEN "transform" ELSE "candidates",
            Bind(loc, "prob", PermuteAndGatherFeat(Val(loc.prob), loc.inds)))

\* Line 357 with prob=None (its default): None has no permute.
DecodeProbNone ==
    /\ pc = "prob"
    /\ IsNone(loc.prob)
    /\ Raise("AttributeError")

\* Lines 360-375: keypoint heatmap peaks per channel, with their offsets.
RefineCandidates ==
    /\ pc = "candidates"
    /\ \E tie \in {"low", "high"} :
        LET nj   == loc.num_joints
            nms  == Nms(Val(loc.kps_heatmap), kernel)
            t    == TopkChannel(nms, K, TopkTieRows(ViewFlat(nms), K, tie))
            offs == IF IsNone(loc.kps_offsets) THEN None
                    ELSE HmOffsets(Val(loc.kps_offsets), t.topk_inds, K, nj)
            hm_xs == HmCoord(t.topk_xs, loc.kps_offsets, offs, 0)
            hm_ys == HmCoord(t.topk_ys, loc.kps_offsets, offs, 1)
        IN  Step("threshold",
                 Bind(Bind(Bind(Bind(Bind(Bind(Bind(Bind(loc,
                   "kps_heatmap", nms),
                   "thresh", thresh),
                   "kps", KpsPermute(loc.kps, nj)),
                   "hm_score", t.topk_scores),
                   "hm_inds", t.topk_inds),
                   "kps_offsets", offs),
                   "hm_xs", hm_xs),
                   "hm_ys", hm_ys))

\* Lines 376-379: candidates at or below the threshold get score -1 and the
\* coordinates -10000.
RefineThreshold ==
    /\ pc = "threshold"
    /\ LET mask == ThresholdMask(loc.hm_score)
       IN  Step("match",
                Bind(Bind(Bind(Bind(loc,
                  "mask", mask),
                  "hm_score", MaskSelect(mask, Score(-1), loc.hm_score)),
                  "hm_ys", MaskSelect(mask, Px(-10000), loc.hm_ys)),
                  "hm_xs", MaskSelect(mask, Px(-10000), loc.hm_xs)))

\* Lines 380-390: the nearest candidate of every (keypoint, object) pair.
RefineMatch ==
    /\ pc = "match"
    /\ LET dist    == DistSq(loc.kps, loc.hm_xs, loc.hm_ys)
           min_ind == MinInd(dist)
       IN  Step("mask",
                Bind(Bind(Bind(Bind(loc,
                  "min_dist", MinDist(dist, min_ind)),
                  "min_ind", min_ind),
                  "hm_score", GatherMin(loc.hm_score, min_ind)),
                  "hm_kps", HmKps(loc.hm_xs, loc.hm_ys, min_ind)))

\* Lines 391-402: the box sides and the rejection mask.
RefineMask ==
    /\ pc = "mask"
    /\ Step("expand",
            Bind(loc, "mask",
                 RejectMask(loc.hm_kps, loc.hm_score, loc.min_dist, loc.bboxes)))

\* Line 403: expand(bottom, num_joints, K, 2) is given the tensor bottom where a
\* size is expected; bottom is a float tensor, which no size can be made of.
RefineExpand ==
    /\ pc = "expand"
    /\ Raise("TypeError")

\* transform_img2cam, line 166: cat of kps [.., 2, J] with hom [.., 1, 9].
TransformCat ==
    /\ pc = "transform"
    /\ loc.num_joints # 9
    /\ Raise("RuntimeError")

\* transform_img2cam, line 221: torch.FloatTensor of a list of [batch, boxes, 1]
\* tensors, which converts one-element tensors only.
TransformData ==
    /\ pc = "transform"
    /\ loc.num_joints = 9
    /\ K # 1
    /\ Raise("ValueError")

\* transform_img2cam, line 267: torch.inverse of a singular matrix.  meta and
\* const are not modelled, so either outcome of the inverse is possible.
TransformSingular ==
    /\ pc = "transform"
    /\ loc.num_joints = 9
    /\ K = 1
    /\ Raise("LinAlgError")

\* transform_img2cam returning (lines 155-278).  The values it computes are not
\* modelled, only the widths of the three arrays.
Transform ==
    /\ pc = "transform"
    /\ loc.num_joints = 9
    /\ K = 1
    /\ Step("assemble",
            Bind(Bind(Bind(loc,
              "position", [width |-> 3]),
              "rot_y", [width |-> 1]),
              "kps_inv", [width |-> 2 * loc.num_joints]))

\* Lines 409-411 when the keypoint heatmap branch did not run: hm_score was
\* never bound.
AssembleUnbound ==
    /\ pc = "assemble"
    /\ "hm_score" \notin DOMAIN loc
    /\ Raise("UnboundLocalError")

Next ==
    \/ DecodePeaks
    \/ DecodeKps
    \/ DecodeCenter
    \/ DecodeBox
    \/ DecodeProb
    \/ DecodeProbNone
    \/ RefineCandidates
    \/ RefineThreshold
    \/ RefineMatch
    \/ RefineMask
    \/ RefineExpand
    \/ TransformCat
    \/ TransformData
    \/ TransformSingular
    \/ Transform
    \/ AssembleUnbound

Spec == Init /\ [][Next]_vars

\* ============================================================ properties
\* ------------------------------------------------------------ _nms (SpecNms)
NeighbourMax(h, c, y, x) ==
    SetMax({h[c][yy][xx] : yy \in {y - 1, y, y + 1} \cap (0 .. (H - 1)),
                           xx \in {x - 1, x, x + 1} \cap (0 .. (W - 1))})

\* C3: _nms with the 3x3 kernel returns, at every cell, the input value when it
\* equals the maximum over the in-bounds cells of its 3x3 neighbourhood in the
\* same channel, and 0 otherwise; so every cell of a maximal plateau survives.
C3_NmsLocalMax ==
    pc = "done" =>
        \A cell \in Cells(C) :
            LET c == cell[1]
                y == cell[2]
                x == cell[3]
            IN  ret[c][y][x] = IF heat[c][y][x] = NeighbourMax(heat, c, y, x)
                               THEN heat[c][y][x] ELSE 0

\* A plateau of two neighbouring equal maximal nonzero cells, both kept, next to
\* a suppressed nonzero cell.
C3_Witness ==
    /\ pc = "done"
    /\ \E a, b \in Cells(C) :
          /\ a # b /\ a[1] = b[1]
          /\ a[2] - b[2] \in {-1, 0, 1} /\ a[3] - b[3] \in {-1, 0, 1}
          /\ heat[a[1]][a[2]][a[3]] = heat[b[1]][b[2]][b[3]]
          /\ ret[a[1]][a[2]][a[3]] # 0 /\ ret[b[1]][b[2]][b[3]] # 0
    /\ \E d \in Cells(C) : heat[d[1]][d[2]][d[3]] # 0 /\ ret[d[1]][d[2]][d[3]] = 0

\* C4 as stated: for every input of _nms, negative values included, the output
\* is less than or equal to the input at every cell.
C4_OutLeIn ==
    pc = "done" =>
        \A cell \in Cells(C) : ret[cell[1]][cell[2]][cell[3]] <= heat[cell[1]][cell[2]][cell[3]]

\* C4 amended: the output of _nms is less than or equal to the input at every
\* cell whose input value is not negative.
C4_OutLeInNonNeg ==
    pc = "done" =>
        \A cell \in Cells(C) :
            heat[cell[1]][cell[2]][cell[3]] >= 0 =>
                ret[cell[1]][cell[2]][cell[3]] <= heat[cell[1]][cell[2]][cell[3]]

\* A heatmap with a negative cell in which a positive cell was suppressed.
C4_Witness ==
    /\ pc = "done"
    /\ \E a, b \in Cells(C) :
          /\ heat[a[1]][a[2]][a[3]] < 0
          /\ heat[b[1]][b[2]][b[3]] > 0 /\ ret[b[1]][b[2]][b[3]] = 0

\* ------------------------------------------------------------ _topk (SpecTopk)
\* C5: the K candidates _topk returns are index-aligned and well-formed: scores
\* non-increasing in rank, flat index in [0, H*W), row * W + col equal to the
\* flat index, class in [0, C), and score equal to the input at (class, row, col).
C5_TopkWellFormed ==
    pc = "done" =>
        /\ \A i, j \in 0 .. (K - 1) : i < j => ret.topk_score[i] >= ret.topk_score[j]
        /\ \A i \in 0 .. (K - 1) :
              /\ ret.topk_inds[i] >= 0 /\ ret.topk_inds[i] < H * W
              /\ ret.topk_ys[i] * W + ret.topk_xs[i] = ret.topk_inds[i]
              /\ ret.topk_ys[i] \in 0 .. (H - 1) /\ ret.topk_xs[i] \in 0 .. (W - 1)
              /\ ret.topk_clses[i] >= 0 /\ ret.topk_clses[i] < C
              /\ ret.topk_score[i] = heat[ret.topk_clses[i]][ret.topk_ys[i]][ret.topk_xs[i]]

\* Candidates of two classes, on different rows and columns, with unequal scores.
C5_Witness ==
    /\ pc = "done" /\ K >= 2
    /\ \E i, j \in 0 .. (K - 1) :
          /\ ret.topk_clses[i] = 0 /\ ret.topk_clses[j] > 0
          /\ ret.topk_ys[i] # ret.topk_ys[j] /\ ret.topk_xs[i] # ret.topk_xs[j]
          /\ ret.topk_score[i] # ret.topk_score[j]

\* The K largest values of the flattened [C*H*W] array, largest first.
FlatAll(scores) ==
    Tabulate([q \in 0 .. (Cardinality(DOMAIN scores) * HW - 1) |->
        scores[q \div HW][(q % HW) \div W][q % W]])

FlatTopkScores(scores, k) == TopkValuesRow(FlatAll(scores), TopkTie(FlatAll(scores), k, "low"))

\* C6 as stated: there is a score array (C >= 2, K <= H*W) for which the K
\* scores _topk returns differ from the K largest values of the flattened array.
C6_TwoStageDiffers ==
    \E a \in TopkInputs : \E k \in 1 .. MaxK :
        \E sel1 \in TopkRows(ViewFlat(a), k) :
            \E sel2 \in TopkOutcomes(TopkStage2Row(a, k, sel1), k) :
                Topk(a, k, sel1, sel2).topk_score # FlatTopkScores(a, k)

\* C6 amended: for every score array and every K <= H*W the K scores _topk
\* returns are the K largest values of the flattened [C*H*W] array, in order.
C6_TwoStageIsFlat ==
    pc = "done" => ret.topk_score = FlatTopkScores(heat, K)

\* K < C*K, and the result mixes classes: one class alone would not give it.
C6_Witness ==
    /\ pc = "done" /\ K >= 2 /\ C >= 2 /\ K < C * K
    /\ \E i, j \in 0 .. (K - 1) : ret.topk_clses[i] # ret.topk_clses[j]
    /\ ret.topk_score[0] > ret.topk_score[K - 1]

\* ------------------------------------------------------------ gather (SpecGather)
\* C7: _permute_and_gather_feat returns out[k][c] = feat[c][ind[k] div W][ind[k] mod W]
\* for every k when all indices lie in [0, H*W), repeated indices allowed and the
\* order of ind kept; it ends in a bounds error, with no output, when some
\* index is >= H*W.
C7_GatherValues ==
    pc # "start" =>
        /\ (\A k \in 0 .. (K - 1) : ind[k] >= 0 /\ ind[k] < H * W) =>
              /\ pc = "done"
              /\ DOMAIN ret = 0 .. (K - 1)
              /\ \A k \in 0 .. (K - 1) :
                    /\ DOMAIN ret[k] = 0 .. (C - 1)
                    /\ \A c \in 0 .. (C - 1) : ret[k][c] = feat[c][ind[k] \div W][ind[k] % W]
        /\ (\E k \in 0 .. (K - 1) : ind[k] >= H * W) =>
              pc = "error" /\ err = "RuntimeError" /\ IsNone(ret)

\* A repeated index on the second row of the grid, out of index order.
C7_Witness ==
    /\ pc = "done" /\ K >= 2
    /\ ind[0] = ind[1] /\ ind[0] \div W >= 1 /\ ind[0] % W >= 1
    /\ \E c \in 0 .. (C - 1) : ret[0][c] # ind[0]

\* ------------------------------------------------------------ object_pose_decode (Spec)
\* The row and the column of the flat pixel index p.
RowOf(p) == p \div W
ColOf(p) == p % W

\* C1 as stated: every call with 16 keypoint channels (J = 8) and the keypoint
\* heatmap supplied returns the [K, 28] detection array; no such call ends in
\* an exception.
C1_ReturnsDetections ==
    (Cardinality(DOMAIN args.kps) = 16 /\ ~IsNone(args.kps_heatmap)) => pc # "error"

\* C2 as stated: a call with reg, kps_heatmap or kps_offsets absent, the other
\* inputs present, never ends in an error.
C2_AbsentOptionalNoError ==
    (/\ IsNone(args.reg) \/ IsNone(args.kps_heatmap) \/ IsNone(args.kps_offsets)
     /\ ~IsNone(args.prob))
        => err = ""

\* The candidate matched to keypoint j of object k lies in the box of k, has a
\* matched score of at least 0.1 and is within 0.3 * max(height, width) of the
\* regression keypoint.
C8_Accepted(j, k) ==
    /\ loc.bboxes[k][0] <= loc.hm_kps[j][k][0] /\ loc.hm_kps[j][k][0] <= loc.bboxes[k][2]
    /\ loc.bboxes[k][1] <= loc.hm_kps[j][k][1] /\ loc.hm_kps[j][k][1] <= loc.bboxes[k][3]
    /\ loc.hm_score[j][k] >= thresh
    /\ ~DistExceeds(loc.min_dist[j][k],
                    MaxOf(loc.bboxes[k][3] - loc.bboxes[k][1], loc.bboxes[k][2] - loc.bboxes[k][0]))

\* C8 as stated: in the keypoint refinement the heatmap estimate is taken for
\* (object, keypoint) exactly when the matched candidate is inside the box, has
\* score >= 0.1 and is near enough, and the call completes with the refined
\* keypoints: the refinement does not end in an exception.
C8_RefinementCompletes ==
    /\ pc = "expand" =>
          \A j \in DOMAIN loc.mask : \A k \in DOMAIN loc.mask[j] :
              (~loc.mask[j][k]) <=> C8_Accepted(j, k)
    /\ "min_ind" \in DOMAIN loc => err = ""

\* The score the keypoint heatmap (after _nms) has at candidate m of channel j.
C9_RawScore(j, m) ==
    loc.kps_heatmap[j][RowOf(loc.hm_inds[j][m])][ColOf(loc.hm_inds[j][m])]

\* The regression estimate of coordinate d of keypoint j of object k: the
\* keypoint field at the object's pixel plus the pixel's column or row.
RegressionKp(j, k, d) ==
    args.kps[2 * j + d][RowOf(loc.inds[k])][ColOf(loc.inds[k])]
      + Px(IF d = 0 THEN ColOf(loc.inds[k]) ELSE RowOf(loc.inds[k]))

\* C9: in the keypoint refinement a candidate whose score is <= 0.1 has its
\* score forced to -1 and both coordinates forced to -10000; an (object,
\* keypoint) whose nearest candidate is such a candidate is masked, so that its
\* keypoint stays the regression estimate and the candidate is never written.
C9_SubThresholdNeverSelected ==
    /\ pc = "match" =>
          \A j \in DOMAIN loc.hm_score : \A m \in DOMAIN loc.hm_score[j] :
              C9_RawScore(j, m) <= thresh =>
                  /\ loc.hm_score[j][m] = Score(-1)
                  /\ loc.hm_xs[j][m] = Px(-10000)
                  /\ loc.hm_ys[j][m] = Px(-10000)
    /\ (pc \in {"expand", "error"} /\ "min_ind" \in DOMAIN loc) =>
          \A j \in DOMAIN loc.min_ind : \A k \in DOMAIN loc.min_ind[j] :
              C9_RawScore(j, loc.min_ind[j][k]) <= thresh =>
                  /\ loc.mask[j][k]
                  /\ loc.hm_score[j][k] = Score(-1)
                  /\ \A d \in 0 .. 1 : loc.hm_kps[j][k][d] = Px(-10000)
                  /\ \A d \in 0 .. 1 : loc.kps[j][k][d] = RegressionKp(j, k, d)

\* Coordinate d of candidate m of channel j before the threshold is applied.
C9_RawCoord(j, m, d) ==
    Px(IF d = 0 THEN ColOf(loc.hm_inds[j][m]) ELSE RowOf(loc.hm_inds[j][m]))
      + (IF IsNone(args.kps_offsets) THEN Half
         ELSE Val(args.kps_offsets)[d][RowOf(loc.hm_inds[j][m])][ColOf(loc.hm_inds[j][m])])

\* A channel all of whose candidates score 0.05, one of them lying exactly on
\* the regression keypoint of an object, inside its box; the keypoint is masked.
C9_Witness ==
    /\ pc = "expand" /\ K >= 2
    /\ \E j \in DOMAIN loc.min_ind :
          /\ \A m \in 0 .. (K - 1) : C9_RawScore(j, m) = thresh \div 2
          /\ \E k \in DOMAIN loc.min_ind[j] : \E m \in 0 .. (K - 1) :
                /\ \A d \in 0 .. 1 : C9_RawCoord(j, m, d) = loc.kps[j][k][d]
                /\ loc.bboxes[k][0] <= loc.kps[j][k][0] /\ loc.kps[j][k][0] <= loc.bboxes[k][2]
                /\ loc.bboxes[k][1] <= loc.kps[j][k][1] /\ loc.kps[j][k][1] <= loc.bboxes[k][3]
                /\ loc.mask[j][k]

\* The sub-pixel offset of coordinate d at the pixel of object k: the offset
\* field when reg is supplied, 0.5 otherwise.
C10_Offset(k, d) ==
    IF IsNone(args.reg) THEN Half
    ELSE Val(args.reg)[d][RowOf(loc.inds[k])][ColOf(loc.inds[k])]

\* The integer anchor of channel c of the keypoints of object k.
C10_Anchor(k, c) ==
    Px(IF c % 2 = 0 THEN ColOf(loc.inds[k]) ELSE RowOf(loc.inds[k]))

\* The keypoint regression field at the pixel of object k.
C10_Gathered(k, c) == args.kps[c][RowOf(loc.inds[k])][ColOf(loc.inds[k])]

\* C10 as stated: every raw keypoint of candidate k is the gathered regression
\* value plus the integer (col, row) anchor plus the sub-pixel offset (the
\* offset field when reg is supplied, 0.5 otherwise).
C10_KpsWithOffset ==
    pc = "box" =>
        \A k \in DOMAIN loc.kps : \A c \in DOMAIN loc.kps[k] :
            loc.kps[k][c] = C10_Gathered(k, c) + C10_Anchor(k, c) + C10_Offset(k, c % 2)

\* C10 amended: every raw keypoint of candidate k is the gathered regression
\* value plus the integer (col, row) anchor, with no sub-pixel offset; the
\* offset (the offset field, or 0.5 when reg is absent) is added to the box
\* centre only.
C10_KpsAnchorOnly ==
    pc = "box" =>
        /\ \A k \in DOMAIN loc.kps : \A c \in DOMAIN loc.kps[k] :
              loc.kps[k][c] = C10_Gathered(k, c) + C10_Anchor(k, c)
        /\ \A k \in DOMAIN loc.xs :
              /\ loc.xs[k] = Px(ColOf(loc.inds[k])) + C10_Offset(k, 0)
              /\ loc.ys[k] = Px(RowOf(loc.inds[k])) + C10_Offset(k, 1)

\* An object off the first row and column, with the offset field supplied and
\* not zero at its pixel, and a nonzero regression value.
C10_Witness ==
    /\ pc = "box" /\ ~IsNone(args.reg)
    /\ \E k \in DOMAIN loc.kps :
          /\ RowOf(loc.inds[k]) >= 1 /\ ColOf(loc.inds[k]) >= 1
          /\ RowOf(loc.inds[k]) # ColOf(loc.inds[k])
          /\ C10_Offset(k, 0) # 0
          /\ \E c \in DOMAIN loc.kps[k] : C10_Gathered(k, c) # 0

=============================================================================
